---- MODULE Spec2Model ----
(***************************************************************************)
(* Model of cybozu-schedule-scraping: the interactive run of main          *)
(* (prompt, organization lookup, login, month-view extraction, output)     *)
(* and the pure helpers it is built from.                                  *)
(*                                                                         *)
(* Strings are sequences of one-character strings, so that split, strip,   *)
(* int() and the f-string formats are computed rather than assumed.  The   *)
(* character "nbsp" stands for U+00A0, which str.strip() removes, and      *)
(* "nichi" for the day counter U+65E5 printed after a day number.           *)
(***************************************************************************)
EXTENDS Integers, Sequences, FiniteSets, TLC

VARIABLES
    pc,             \* position of the run in main
    login_info,     \* LoginInfo read by prompt_user_for_login_info
    ym_text,        \* the text typed at the year/month prompt
    ym,             \* the YearMonth built from it
    division_code,  \* result of retrieve_division_code
    user_id,        \* result of login
    requests,       \* the requests issued so far, in order
    last_status,    \* what the transport reported for the last request
    page,           \* the month-view page the calendar request returned
    schedules,      \* result of retrieve_monthly_schedules
    stdout,         \* the lines printed so far
    error,          \* the exception that ended the run, or "none"
    arg,            \* input of a helper exercised on its own
    ret             \* what the helper gave for it

vars == <<pc, login_info, ym_text, ym, division_code, user_id, requests,
          last_status, page, schedules, stdout, error, arg, ret>>

\* ---------------------------------------------------------------- bounds

MaxTextLen == 4
MaxNameLen == 2
MaxOptions == 1
MaxPageSize == 4

\* ------------------------------------------------------ Python's strings

\* Python's None, where an Optional[time] is expected
None == [none |-> TRUE]
NBSP == "nbsp"
\* The characters of the Japanese texts the program prints: one name each
NICHI == "nichi"
NEN == "nen"
GATSU == "gatsu"
BACKQUOTE == "backquote"
E_NO == "e-no"
REQUEST_FAILED == "request-ni-shippai-shimashita"
SAN_NO == "san-no"
SCHEDULE_IS == "no-schedule-wa-tsugi-no-toori-desu"

Digits == <<"0", "1", "2", "3", "4", "5", "6", "7", "8", "9">>

IsDigit(c) == \E i \in 1..10 : Digits[i] = c

DigitVal(c) == (CHOOSE i \in 1..10 : Digits[i] = c) - 1

\* What a call gives: the value it returns, or the exception it raises.
\* Try(r, K) is "v = <call>; K(v)": the exception of the call, if any,
\* propagates, and otherwise the rest of the body runs on its value.
Return(v) == [exc |-> "none", val |-> v]
Raise(kind) == [exc |-> kind, val |-> <<>>]
Try(r, K(_)) == IF r.exc # "none" THEN Raise(r.exc) ELSE K(r.val)

\* str.isspace() of one character
IsSpace(c) == c \in {" ", NBSP}

RECURSIVE LStrip(_)
LStrip(s) ==
    IF s # <<>> /\ IsSpace(Head(s)) THEN LStrip(Tail(s)) ELSE s

RECURSIVE RStrip(_)
RStrip(s) ==
    IF s # <<>> /\ IsSpace(s[Len(s)]) THEN RStrip(SubSeq(s, 1, Len(s) - 1)) ELSE s

\* str.strip()
Strip(s) == RStrip(LStrip(s))

\* str.find(c) + 1: the place of the first c in s, 0 when there is none
IndexOf(s, c) ==
    IF \E i \in 1..Len(s) : s[i] = c
    THEN CHOOSE i \in 1..Len(s) : s[i] = c /\ \A j \in 1..(i - 1) : s[j] # c
    ELSE 0

\* str.split(c, 1)
SplitFirst(s, c) ==
    LET i == IndexOf(s, c)
    IN  IF i = 0 THEN <<s>>
        ELSE <<SubSeq(s, 1, i - 1), SubSeq(s, i + 1, Len(s))>>

\* str.split(c)
RECURSIVE SplitAll(_, _)
SplitAll(s, c) ==
    LET i == IndexOf(s, c)
    IN  IF i = 0 THEN <<s>>
        ELSE <<SubSeq(s, 1, i - 1)>> \o SplitAll(SubSeq(s, i + 1, Len(s)), c)

\* str.removesuffix(suffix)
RemoveSuffix(s, suffix) ==
    IF Len(suffix) > 0 /\ Len(s) >= Len(suffix)
       /\ SubSeq(s, Len(s) - Len(suffix) + 1, Len(s)) = suffix
    THEN SubSeq(s, 1, Len(s) - Len(suffix))
    ELSE s

RECURSIVE DigitsVal(_)
DigitsVal(s) ==
    IF s = <<>> THEN 0
    ELSE 10 * DigitsVal(SubSeq(s, 1, Len(s) - 1)) + DigitVal(s[Len(s)])

\* int(s): surrounding whitespace is ignored, one sign is allowed, the rest
\* must be one or more digits; anything else is a ValueError.
IntOfDigits(negative, body) ==
    IF body # <<>> /\ \A i \in 1..Len(body) : IsDigit(body[i])
    THEN Return(IF negative THEN 0 - DigitsVal(body) ELSE DigitsVal(body))
    ELSE Raise("ValueError")

IntOfStripped(t) ==
    IF t # <<>> /\ Head(t) \in {"+", "-"}
    THEN IntOfDigits(Head(t) = "-", Tail(t))
    ELSE IntOfDigits(FALSE, t)

PyInt(s) == IntOfStripped(Strip(s))

RECURSIVE NatToStr(_)
NatToStr(n) ==
    IF n < 10 THEN <<Digits[n + 1]>>
    ELSE NatToStr(n \div 10) \o <<Digits[(n % 10) + 1]>>

\* f"{n}"
IntToStr(n) == IF n < 0 THEN <<"-">> \o NatToStr(0 - n) ELSE NatToStr(n)

RECURSIVE ZeroPad(_, _)
ZeroPad(s, width) == IF Len(s) >= width THEN s ELSE ZeroPad(<<"0">> \o s, width)

\* f"{n:0w}": the sign counts in the width and stays in front
FormatZero(n, width) ==
    IF n < 0 THEN <<"-">> \o ZeroPad(NatToStr(0 - n), width - 1)
    ELSE ZeroPad(NatToStr(n), width)

\* -------------------------------------------------------- time of day

\* datetime.time(hour=h, minute=m)
MakeTime(h, m) ==
    IF h \in 0..23 /\ m \in 0..59
    THEN Return([hour |-> h, minute |-> m])
    ELSE Raise("ValueError")

\* _str_to_time from its split on: time(hour=int(...), minute=int(...))
TimeOfSplitted(splitted) ==
    IF Len(splitted) # 2 THEN Return(None)
    ELSE Try(PyInt(splitted[1]), LAMBDA h :
         Try(PyInt(splitted[2]), LAMBDA m : MakeTime(h, m)))

\* _str_to_time of a text already stripped
TimeOfStripped(t) ==
    IF t = <<>> THEN Return(None) ELSE TimeOfSplitted(SplitFirst(t, ":"))

str_to_time(text) == TimeOfStripped(Strip(text))

\* time.strftime("%H:%M"), "" for None
time_to_str(t) ==
    IF t = None THEN <<>>
    ELSE FormatZero(t.hour, 2) \o <<":">> \o FormatZero(t.minute, 2)

\* ------------------------------------------------------------ Schedule

Schedule(day, begin, end, title) ==
    [day |-> day, begin |-> begin, end |-> end, title |-> title]

\* Schedule.__str__ deciding on begin alone
ScheduleStr_BeginOnly(s) ==
    IF s.begin = None
    THEN IntToStr(s.day) \o <<NICHI, " ">> \o s.title
    ELSE IntToStr(s.day) \o <<NICHI, " ">>
         \o (IF time_to_str(s.end) # <<>>
             THEN time_to_str(s.begin) \o <<"-">> \o time_to_str(s.end)
             ELSE time_to_str(s.begin))
         \o <<" ">> \o s.title

\* Schedule.__str__; a datetime.time is always true, None is false, and a
\* str is true when it is not empty.
ScheduleStr(s) ==
    IF s.begin = None /\ s.end = None
    THEN IntToStr(s.day) \o <<NICHI, " ">> \o s.title
    ELSE LET begin_str == time_to_str(s.begin)
             end_str == time_to_str(s.end)
             time_range == IF end_str # <<>>
                           THEN begin_str \o <<"-">> \o end_str
                           ELSE begin_str
         IN  IntToStr(s.day) \o <<NICHI, " ">> \o time_range \o <<" ">> \o s.title

\* ------------------------------------------------ the month-view page
\* A page is the sequence of its td.eventcell elements.  A cell is
\*   [label  |-> [present, text],       span.date and its text
\*    events |-> <<event, ...>>]        its div.eventLink elements
\* and an event is
\*   [time   |-> [present, text],       span.eventDateTime and its text
\*    anchor |-> [present, has_title, title]]   a.event and its title attribute

NoElem == [present |-> FALSE, text |-> <<>>]
Elem(text) == [present |-> TRUE, text |-> text]
NoAnchor == [present |-> FALSE, has_title |-> FALSE, title |-> <<>>]
UntitledAnchor == [present |-> TRUE, has_title |-> FALSE, title |-> <<>>]
TitledAnchor(title) == [present |-> TRUE, has_title |-> TRUE, title |-> title]

NbspSuffix == <<"&", "n", "b", "s", "p", ";">>

\* hasattr(title_elem, "title"): None has no such attribute; a bs4 Tag
\* answers every attribute name that is not its own by find(name), which
\* returns (None here) instead of raising, so hasattr is true of any Tag.
HasAttrTitle(anchor) == anchor.present

\* begin and end from the label's text split at its first "-"
TimeRangeOfSplitted(splitted) ==
    Try(str_to_time(splitted[1]), LAMBDA b :
        IF Len(splitted) # 2 THEN Return([begin |-> b, end |-> None])
        ELSE Try(str_to_time(splitted[2]), LAMBDA e :
                 Return([begin |-> b, end |-> e])))

\* The time range of one div.eventLink
EventTimeRange(ev) ==
    IF ~ev.time.present
    THEN Return([begin |-> None, end |-> None])
    ELSE TimeRangeOfSplitted(
             SplitFirst(RemoveSuffix(ev.time.text, NbspSuffix), "-"))

\* title_elem["title"]
TitleAttribute(anchor) ==
    IF anchor.has_title THEN Return(anchor.title) ELSE Raise("KeyError")

\* One pass of the loop over event_links: the records it appends (none or
\* one), or the exception it raises.
ExtractEventLink(day, ev) ==
    Try(EventTimeRange(ev), LAMBDA tr :
        IF ~HasAttrTitle(ev.anchor) THEN Return(<<>>)
        ELSE Try(TitleAttribute(ev.anchor), LAMBDA title :
                 Return(<<Schedule(day, tr.begin, tr.end, title)>>)))

\* m, _ = date_span.text.split("/", 1): the two parts of a date label; a
\* text without "/" cannot be unpacked.
UnpackLabel(text) ==
    IF Len(SplitFirst(text, "/")) # 2 THEN Raise("ValueError")
    ELSE Return(SplitFirst(text, "/"))

\* _is_event_cell_at_month keeping the cells of every month
is_event_cell_at_month_AnyMonth(event_cell, month) ==
    IF ~event_cell.label.present THEN Raise("AttributeError")
    ELSE Try(UnpackLabel(event_cell.label.text), LAMBDA parts :
         Try(PyInt(parts[1]), LAMBDA m : Return(TRUE)))

\* _is_event_cell_at_month passing over a cell without span.date
is_event_cell_at_month_SkipsUnlabelled(event_cell, month) ==
    IF ~event_cell.label.present THEN Return(FALSE)
    ELSE Try(UnpackLabel(event_cell.label.text), LAMBDA parts :
         Try(PyInt(parts[1]), LAMBDA m : Return(m = month)))

\* _is_event_cell_at_month: is the cell's month the wanted one?  Without
\* span.date, select_one gives None and None.text is an AttributeError.
is_event_cell_at_month(event_cell, month) ==
    IF ~event_cell.label.present THEN Raise("AttributeError")
    ELSE Try(UnpackLabel(event_cell.label.text), LAMBDA parts :
         Try(PyInt(parts[1]), LAMBDA m : Return(m = month)))

\* [event_cell for event_cell in event_cells if _is_event_cell_at_month(...)]
RECURSIVE FilterCells(_, _)
FilterCells(event_cells, month) ==
    IF event_cells = <<>> THEN Return(<<>>)
    ELSE Try(is_event_cell_at_month(Head(event_cells), month), LAMBDA keep :
         Try(FilterCells(Tail(event_cells), month), LAMBDA rest :
             Return(IF keep THEN <<Head(event_cells)>> \o rest ELSE rest)))

\* int(event_cell.select_one("span.date").text.split("/", 1)[1])
CellDay(event_cell) == PyInt(SplitFirst(event_cell.label.text, "/")[2])

\* for event_link in event_links: ...
RECURSIVE ExtractEventLinks(_, _)
ExtractEventLinks(day, event_links) ==
    IF event_links = <<>> THEN Return(<<>>)
    ELSE Try(ExtractEventLink(day, Head(event_links)), LAMBDA first :
         Try(ExtractEventLinks(day, Tail(event_links)), LAMBDA rest :
             Return(first \o rest)))

\* for event_cell, event_links in event_cell_links: ...
RECURSIVE ExtractCells(_)
ExtractCells(event_cells) ==
    IF event_cells = <<>> THEN Return(<<>>)
    ELSE Try(CellDay(Head(event_cells)), LAMBDA day :
         Try(ExtractEventLinks(day, Head(event_cells).events), LAMBDA first :
         Try(ExtractCells(Tail(event_cells)), LAMBDA rest :
             Return(first \o rest))))

\* retrieve_monthly_schedules, from the fetched page to the list returned
ExtractSchedules(event_cells, month) ==
    Try(FilterCells(event_cells, month), LAMBDA kept : ExtractCells(kept))

\* ------------------------------------------- organization and user lookup
\* A select element is the sequence of its option elements, each
\* [text |-> the option's text, value |-> its value attribute].

\* The same with the name stripped as well
MatchingOptions_TrimsName(options, name) ==
    SelectSeq(options, LAMBDA option : Strip(option.text) = Strip(name))

\* [option for option in options if option.text.strip() == name]
MatchingOptions(options, name) ==
    SelectSeq(options, LAMBDA option : Strip(option.text) = name)

\* retrieve_division_code, after the page is fetched
FindDivisionCode(options, division_name) ==
    IF MatchingOptions(options, division_name) = <<>>
    THEN Raise("CBScrapingException")
    ELSE Return(MatchingOptions(options, division_name)[1].value)

\* The same going on without a user id when no option matches
FindUserId_NoRaise(options, name) ==
    IF MatchingOptions(options, name) = <<>>
    THEN Return(<<>>)
    ELSE Return(MatchingOptions(options, name)[1].value)

\* login, from the fetched login page to the user id
FindUserId(options, name) ==
    IF MatchingOptions(options, name) = <<>>
    THEN Raise("CBScrapingException")
    ELSE Return(MatchingOptions(options, name)[1].value)

\* ------------------------------------------------------------ YearMonth

\* YearMonth.__init__ without its check of the month
YearMonth_NoMonthCheck(year, month) ==
    IF year < 1900 \/ 2100 < year THEN Raise("CBScrapingException")
    ELSE Return([year |-> year, month |-> month])

\* YearMonth.__init__
YearMonth(year, month) ==
    IF year < 1900 \/ 2100 < year THEN Raise("CBScrapingException")
    ELSE IF month < 1 \/ 12 < month THEN Raise("CBScrapingException")
    ELSE Return([year |-> year, month |-> month])

\* YearMonth.text_jp
text_jp(v) == FormatZero(v.year, 4) \o <<NEN>> \o FormatZero(v.month, 2) \o <<GATSU>>

\* try: int(text) except ValueError: raise CBScrapingException(...)
IntOrScrapingException(text) ==
    IF PyInt(text).exc = "ValueError" THEN Raise("CBScrapingException")
    ELSE PyInt(text)

\* prompt_user_for_year_month from its split on
YearMonthOfSplitted(splitted) ==
    IF Len(splitted) # 2 THEN Raise("CBScrapingException")
    ELSE Try(IntOrScrapingException(splitted[1]), LAMBDA year :
         Try(IntOrScrapingException(splitted[2]), LAMBDA month :
             YearMonth(year, month)))

\* f"{today.year:04}{separator}{today.month:02}"
DefaultYearMonthText(today) ==
    FormatZero(today.year, 4) \o <<"/">> \o FormatZero(today.month, 2)

\* prompt_user_for_year_month, given the line typed and date.today()
prompt_user_for_year_month(typed, today) ==
    YearMonthOfSplitted(
        SplitAll(IF typed = <<>> THEN DefaultYearMonthText(today) ELSE typed, "/"))

\* ------------------------------------------------------ call_http_method

CB_ROOT_URI == "http://192.168.220.14/scripts/cbag/ag.exe?"

\* What the transport can report for one request: a response with a status
\* of one of these classes, or no response at all.
Statuses == {"2xx", "3xx", "4xx", "5xx", "ConnectionError", "Timeout"}

\* handler(url=uri, data=data): a request that gets no response raises the
\* transport's own exception, which is not an HTTPError.
HandlerRaises(status) == status \in {"ConnectionError", "Timeout"}

\* response.raise_for_status(): HTTPError for a 4xx or 5xx status only
RaiseForStatus(status) == status \in {"4xx", "5xx"}

\* method.upper()
Upper(method) == IF method = "get" THEN "GET" ELSE "POST"

\* The outcome of call_http_method: the exception that leaves it ("none"
\* when the response is returned) and the exception's message.
call_http_method(uri_part, method, status) ==
    IF HandlerRaises(status) THEN [exc |-> status, msg |-> <<>>]
    ELSE IF RaiseForStatus(status)
    THEN [exc |-> "CBScrapingException",
          msg |-> <<BACKQUOTE, CB_ROOT_URI>> \o uri_part
                  \o <<BACKQUOTE, E_NO, Upper(method), REQUEST_FAILED>>]
    ELSE [exc |-> "none", msg |-> <<>>]

Request(method, uri_part, data) ==
    [method |-> method, uri |-> <<CB_ROOT_URI>> \o uri_part, data |-> data]

\* ------------------------------------------ the helpers on their own
\* The run of main stays where it is while a helper is exercised.

MainIdle ==
    /\ pc = "helper"
    /\ login_info = [division_name |-> <<>>, name |-> <<>>, password |-> <<>>]
    /\ ym_text = <<>>
    /\ ym = [year |-> 0, month |-> 0]
    /\ division_code = <<>>
    /\ user_id = <<>>
    /\ requests = <<>>
    /\ last_status = "none"
    /\ page = <<>>
    /\ schedules = <<>>
    /\ stdout = <<>>
    /\ error = [kind |-> "none", msg |-> <<>>]

MainVars == <<pc, login_info, ym_text, ym, division_code, user_id, requests,
              last_status, page, schedules, stdout, error>>

SeqsUpTo(S, n) == UNION {[1..k -> S] : k \in 0..n}

\* Time-range labels: every text of up to MaxTextLen of these characters,
\* and the labels the site is documented to produce.
TimeChars == {"1", "7", ":", "-", "a", " "}

ExampleTexts ==
    { <<"9", ":", "0", "0", "-", "1", "0", ":", "3", "0">>,
      <<"9", ":", "0", "0", "-", "1", "0", ":", "3", "0", NBSP>>,
      <<"9", ":", "0", "0", "-", "1", "0", ":", "3", "0">> \o NbspSuffix,
      <<"9", ":", "0", "0", "-">>,
      <<"9", ":", "0", "0">>,
      <<"-", "1", "0", ":", "3", "0">>,
      <<"0", ":", "0", "0", "-", "2", "3", ":", "5", "9">>,
      <<"a", "b", ":", "c", "d">>,
      <<"2", "5", ":", "0", "0">>,
      <<"9", ":", "7", "5">>,
      <<"9", ":", "0", "0", "-", "a", "b", ":", "c", "d">> }

TimeTexts == SeqsUpTo(TimeChars, MaxTextLen) \cup ExampleTexts

\* The day and title of the entry or record a helper is exercised on
HelperDays == {5}
HelperTitle == <<"M", "t", "g">>

OptTimes ==
    {None} \cup {[hour |-> h, minute |-> m] : h \in {0, 9, 23}, m \in {0, 30}}

\* An event entry with a time-range label and a titled anchor is extracted
\* (retrieve_monthly_schedules, one pass of its inner loop).
ExtractOne ==
    /\ arg.kind = "event"
    /\ ret.stage = "none"
    /\ LET r == ExtractEventLink(arg.rec.day, arg.ev)
       IN  ret' = [stage |-> "extracted", exc |-> r.exc, records |-> r.val,
                   line |-> <<>>]
    /\ UNCHANGED <<arg, MainVars>>

\* A record made with the Schedule constructor
ConstructOne ==
    /\ arg.kind = "record"
    /\ ret.stage = "none"
    /\ ret' = [stage |-> "extracted", exc |-> "none", records |-> <<arg.rec>>,
               line |-> <<>>]
    /\ UNCHANGED <<arg, MainVars>>

\* print(schedule): str(schedule)
PrintOne ==
    /\ ret.stage = "extracted"
    /\ ret.exc = "none"
    /\ ret.records # <<>>
    /\ ret' = [ret EXCEPT !.stage = "printed", !.line = ScheduleStr(ret.records[1])]
    /\ UNCHANGED <<arg, MainVars>>

InitTime ==
    /\ MainIdle
    /\ arg \in {[kind |-> "event",
                 ev |-> [time |-> Elem(t), anchor |-> TitledAnchor(HelperTitle)],
                 rec |-> Schedule(d, None, None, HelperTitle)] :
                    t \in TimeTexts, d \in HelperDays}
          \cup {[kind |-> "record",
                  ev |-> [time |-> NoElem, anchor |-> NoAnchor],
                  rec |-> Schedule(d, b, e, HelperTitle)] :
                    b \in OptTimes, e \in OptTimes, d \in HelperDays}
    /\ ret = [stage |-> "none", exc |-> "none", records |-> <<>>, line |-> <<>>]

NextTime == ExtractOne \/ ConstructOne \/ PrintOne

SpecTime == InitTime /\ [][NextTime]_vars

\* Names and option texts: every text of up to MaxNameLen of these characters
NameChars == {"a", "A", " "}

NameTexts == SeqsUpTo(NameChars, MaxNameLen)

\* The value attribute of the i-th option of a select element
OptionValue(i) == IntToStr(10 + i)

OptionLists ==
    {[i \in 1..Len(texts) |-> [text |-> texts[i], value |-> OptionValue(i)]] :
        texts \in SeqsUpTo(NameTexts, MaxOptions)}

LookupDivision ==
    /\ arg.kind = "lookup"
    /\ ret.stage = "none"
    /\ ret' = [stage |-> "division",
               division |-> FindDivisionCode(arg.options, arg.name),
               user |-> [exc |-> "none", val |-> <<>>]]
    /\ UNCHANGED <<arg, MainVars>>

LookupUser ==
    /\ arg.kind = "lookup"
    /\ ret.stage = "division"
    /\ ret' = [ret EXCEPT !.stage = "user",
                          !.user = FindUserId(arg.options, arg.name)]
    /\ UNCHANGED <<arg, MainVars>>

InitLookup ==
    /\ MainIdle
    /\ arg \in {[kind |-> "lookup", name |-> n, options |-> o] :
                    n \in NameTexts, o \in OptionLists}
    /\ ret = [stage |-> "none", division |-> [exc |-> "none", val |-> <<>>],
              user |-> [exc |-> "none", val |-> <<>>]]

NextLookup == LookupDivision \/ LookupUser

SpecLookup == InitLookup /\ [][NextLookup]_vars

\* ------------------------------------------------------ the run of main

\* What the operator types at the prompts
DivisionNames == {<<"a", "A">>, <<"a", "A", " ">>}
UserNames == {<<"A", "a">>, <<" ", "A", "a">>}
Passwords == {<<"p", "w">>}

YmTexts ==
    { <<>>,
      <<"2", "0", "2", "4", "/", "0", "5">>,
      <<"2", "0", "2", "4">>,
      <<"2", "0", "2", "4", "/", "5", "/", "1">>,
      <<"a", "b", "c", "d", "/", "0", "5">>,
      <<"2", "0", "2", "4", "/", "x">>,
      <<"2", "0", "2", "4", "/">>,
      <<"1", "8", "9", "9", "/", "1", "2">>,
      <<"2", "0", "2", "4", "/", " ">>,
      <<"2", "1", "0", "1", "/", "0", "1">>,
      <<"2", "0", "2", "4", "/", "0">>,
      <<"2", "0", "2", "4", "/", "1", "3">>,
      <<"2", "0", "2", "4", "/", "-", "5">> }

\* date.today()
Todays == {[year |-> 2024, month |-> 4]}

\* The month-view pages: cells labelled 4/30, 5/2, 5/1 (in any order and
\* number) or without a label, holding event entries of these kinds.
CellLabels ==
    { NoElem,
      Elem(<<"4", "/", "3", "0">>),
      Elem(<<"5", "/", "2">>),
      Elem(<<"5", "/", "1">>) }

EventKinds ==
    { [time |-> Elem(<<"9", ":", "0", "0", "-", "1", "0", ":", "3", "0">>),
       anchor |-> TitledAnchor(<<"A">>)],
      [time |-> NoElem, anchor |-> TitledAnchor(<<"B">>)],
      [time |-> NoElem, anchor |-> NoAnchor],
      [time |-> NoElem, anchor |-> UntitledAnchor] }

\* A cell with k - 1 event entries
CellsOfSize(k) ==
    {[label |-> l, events |-> es] : l \in CellLabels, es \in [1..(k - 1) -> EventKinds]}

\* The pages whose cells and event entries number n together
RECURSIVE PagesOfSize(_)
PagesOfSize(n) ==
    IF n = 0 THEN {<<>>}
    ELSE UNION {{<<c>> \o p : c \in CellsOfSize(k), p \in PagesOfSize(n - k)} : k \in 1..n}

CalendarPages == UNION {PagesOfSize(n) : n \in 0..MaxPageSize}

NoError == [kind |-> "none", msg |-> <<>>]

HelpersIdle ==
    /\ arg = [kind |-> "none"]
    /\ ret = [stage |-> "none"]

Init ==
    /\ pc = "prompt_login"
    /\ login_info = [division_name |-> <<>>, name |-> <<>>, password |-> <<>>]
    /\ ym_text = <<>>
    /\ ym = [year |-> 0, month |-> 0]
    /\ division_code = <<>>
    /\ user_id = <<>>
    /\ requests = <<>>
    /\ last_status = "none"
    /\ page = <<>>
    /\ schedules = <<>>
    /\ stdout = <<>>
    /\ error = NoError
    /\ HelpersIdle

\* main: login_info = prompt_user_for_login_info()
PromptLoginInfo ==
    /\ pc = "prompt_login"
    /\ \E d \in DivisionNames, n \in UserNames, p \in Passwords :
            login_info' = [division_name |-> d, name |-> n, password |-> p]
    /\ pc' = "prompt_ym"
    /\ UNCHANGED <<ym_text, ym, division_code, user_id, requests, last_status,
                   page, schedules, stdout, error, arg, ret>>

\* main: ym = prompt_user_for_year_month()
PromptYearMonth ==
    /\ pc = "prompt_ym"
    /\ \E typed \in YmTexts, today \in Todays :
          LET r == prompt_user_for_year_month(typed, today)
          IN  /\ ym_text' = typed
              /\ IF r.exc = "none"
                 THEN /\ ym' = r.val
                      /\ pc' = "division"
                      /\ error' = error
                 ELSE /\ ym' = ym
                      /\ pc' = "failed"
                      /\ error' = [kind |-> r.exc, msg |-> <<>>]
    /\ UNCHANGED <<login_info, division_code, user_id, requests, last_status,
                   page, schedules, stdout, arg, ret>>

\* main: division_code = retrieve_division_code(session, division_name)
RetrieveDivisionCode ==
    /\ pc = "division"
    /\ \E status \in Statuses :
          LET uri_part == <<"page=LoginGroup">>
              response == call_http_method(uri_part, "get", status)
          IN  /\ requests' = Append(requests, Request("get", uri_part, None))
              /\ last_status' = status
              /\ IF response.exc # "none"
                 THEN /\ error' = [kind |-> response.exc, msg |-> response.msg]
                      /\ pc' = "failed"
                      /\ division_code' = division_code
                 ELSE \E options \in OptionLists :
                        LET found == FindDivisionCode(options, login_info.division_name)
                        IN  IF found.exc # "none"
                            THEN /\ error' = [kind |-> found.exc, msg |-> <<>>]
                                 /\ pc' = "failed"
                                 /\ division_code' = division_code
                            ELSE /\ division_code' = found.val
                                 /\ pc' = "login"
                                 /\ error' = error
    /\ UNCHANGED <<login_info, ym_text, ym, user_id, page, schedules, stdout,
                   arg, ret>>

\* f"gid={division_code}&&Group={division_code}"
LoginUriPart == <<"gid=">> \o division_code \o <<"&&Group=">> \o division_code

\* login, up to the user id found in the login page
LoginGet ==
    /\ pc = "login"
    /\ \E status \in Statuses :
          LET response == call_http_method(LoginUriPart, "get", status)
          IN  /\ requests' = Append(requests, Request("get", LoginUriPart, None))
              /\ last_status' = status
              /\ IF response.exc # "none"
                 THEN /\ error' = [kind |-> response.exc, msg |-> response.msg]
                      /\ pc' = "failed"
                      /\ user_id' = user_id
                 ELSE \E options \in OptionLists :
                        LET found == FindUserId(options, login_info.name)
                        IN  IF found.exc # "none"
                            THEN /\ error' = [kind |-> found.exc, msg |-> <<>>]
                                 /\ pc' = "failed"
                                 /\ user_id' = user_id
                            ELSE /\ user_id' = found.val
                                 /\ pc' = "login_post"
                                 /\ error' = error
    /\ UNCHANGED <<login_info, ym_text, ym, division_code, page, schedules,
                   stdout, arg, ret>>

\* login, from the credentials POSTed to its return; the response is not read
LoginPost ==
    /\ pc = "login_post"
    /\ \E status \in Statuses :
          LET data == [csrf_ticket |-> <<>>, _System |-> "login", _Login |-> "1",
                       LoginMethod |-> "1", _ID |-> user_id,
                       Password |-> login_info.password]
              response == call_http_method(LoginUriPart, "post", status)
          IN  /\ requests' = Append(requests, Request("post", LoginUriPart, data))
              /\ last_status' = status
              /\ IF response.exc # "none"
                 THEN /\ error' = [kind |-> response.exc, msg |-> response.msg]
                      /\ pc' = "failed"
                 ELSE /\ pc' = "calendar"
                      /\ error' = error
    /\ UNCHANGED <<login_info, ym_text, ym, division_code, user_id, page,
                   schedules, stdout, arg, ret>>

\* f"page=ScheduleUserMonth&UID={user_id}&Date={date_str}"
CalendarUriPart ==
    <<"page=ScheduleUserMonth&UID=">> \o user_id \o <<"&Date=", "da.">>
    \o FormatZero(ym.year, 4) \o <<".">> \o FormatZero(ym.month, 2) \o <<".01">>

\* main: schedules = retrieve_monthly_schedules(session, user_id, ym)
RetrieveMonthlySchedules ==
    /\ pc = "calendar"
    /\ \E status \in Statuses :
          LET response == call_http_method(CalendarUriPart, "get", status)
          IN  /\ requests' = Append(requests, Request("get", CalendarUriPart, None))
              /\ last_status' = status
              /\ IF response.exc # "none"
                 THEN /\ error' = [kind |-> response.exc, msg |-> response.msg]
                      /\ pc' = "failed"
                      /\ UNCHANGED <<page, schedules>>
                 ELSE \E event_cells \in CalendarPages :
                        LET result == ExtractSchedules(event_cells, ym.month)
                        IN  /\ page' = event_cells
                            /\ IF result.exc # "none"
                               THEN /\ error' = [kind |-> result.exc, msg |-> <<>>]
                                    /\ pc' = "failed"
                                    /\ schedules' = schedules
                               ELSE /\ schedules' = result.val
                                    /\ pc' = "write"
                                    /\ error' = error
    /\ UNCHANGED <<login_info, ym_text, ym, division_code, user_id, stdout,
                   arg, ret>>

\* The same printing what was collected when the run has failed as well
WriteMonthlySchedules_AfterFailure ==
    /\ pc \in {"write", "failed"}
    /\ stdout = <<>>
    /\ stdout' = <<login_info.name \o <<SAN_NO>> \o text_jp(ym) \o <<SCHEDULE_IS>>>>
                 \o [i \in 1..Len(schedules) |-> ScheduleStr(schedules[i])]
    /\ pc' = IF pc = "write" THEN "done" ELSE pc
    /\ UNCHANGED <<login_info, ym_text, ym, division_code, user_id, requests,
                   last_status, page, schedules, error, arg, ret>>

\* main: write_monthly_schedules(sys.stdout, login_info.name, ym, schedules)
WriteMonthlySchedules ==
    /\ pc = "write"
    /\ stdout' = <<login_info.name \o <<SAN_NO>> \o text_jp(ym) \o <<SCHEDULE_IS>>>>
                 \o [i \in 1..Len(schedules) |-> ScheduleStr(schedules[i])]
    /\ pc' = "done"
    /\ UNCHANGED <<login_info, ym_text, ym, division_code, user_id, requests,
                   last_status, page, schedules, error, arg, ret>>

Next ==
    \/ PromptLoginInfo
    \/ PromptYearMonth
    \/ RetrieveDivisionCode
    \/ LoginGet
    \/ LoginPost
    \/ RetrieveMonthlySchedules
    \/ WriteMonthlySchedules

Spec == Init /\ [][Next]_vars

\* ============================================================ properties

OkStatuses == {"2xx", "3xx"}

\* The calendar request was answered and its page handed to the extraction
PageFetched == Len(requests) = 4 /\ last_status \in OkStatuses

\* The month and the day a date label M/D shows
LabelMonth(cell) == PyInt(SplitFirst(cell.label.text, "/")[1]).val
LabelDay(cell) == PyInt(SplitFirst(cell.label.text, "/")[2]).val

AllLabelled(cells) == \A i \in 1..Len(cells) : cells[i].label.present

HasTitle(ev) == ev.anchor.present /\ ev.anchor.has_title

\* The places <<i, j>> of the titled entries of the cells of a month
TitledPlaces(cells, month) ==
    {<<i, j>> \in (1..Len(cells)) \X (1..MaxPageSize + 1) :
        /\ j <= Len(cells[i].events)
        /\ LabelMonth(cells[i]) = month
        /\ HasTitle(cells[i].events[j])}

Before(a, b) == a[1] < b[1] \/ (a[1] = b[1] /\ a[2] < b[2])

\* The n-th of these places in page order
NthPlace(places, n) ==
    CHOOSE a \in places : Cardinality({b \in places : Before(b, a)}) = n - 1

\* Day and title of each titled entry of the month, in page order
ExpectedRecords(cells, month) ==
    [n \in 1..Cardinality(TitledPlaces(cells, month)) |->
        LET a == NthPlace(TitledPlaces(cells, month), n)
        IN  [day |-> LabelDay(cells[a[1]]),
             title |-> cells[a[1]].events[a[2]].anchor.title]]

DayAndTitle(records) ==
    [n \in 1..Len(records) |-> [day |-> records[n].day, title |-> records[n].title]]

\* C1: an error raised by any step ends the run: from then on no request is
\* issued and nothing is printed, and whatever is printed is printed by a run
\* in which the organization lookup, the login and the calendar extraction
\* all completed.
C1_ErrorsEndTheRun ==
    /\ [](error.kind # "none" <=> pc = "failed")
    /\ [](stdout # <<>> => /\ pc = "done"
                           /\ error.kind = "none"
                           /\ Len(requests) = 4
                           /\ division_code # <<>>
                           /\ user_id # <<>>)
    /\ [][pc = "failed" => UNCHANGED <<requests, stdout>>]_vars
    /\ [][stdout' # stdout => pc = "write"]_vars

C1_Witness ==
    /\ pc = "failed"
    /\ error.kind = "KeyError"
    /\ Len(requests) = 4
    /\ stdout = <<>>

\* What the spec calls a malformed or out-of-range year/month input: a
\* typed text that is not two "/"-separated integers, or whose year is
\* outside 1900..2100 or month outside 1..12.
SlashCount(text) == Cardinality({i \in 1..Len(text) : text[i] = "/"})

InvalidYearMonthText(text) ==
    /\ text # <<>>
    /\ \/ SlashCount(text) # 1
       \/ PyInt(SubSeq(text, 1, IndexOf(text, "/") - 1)).exc # "none"
       \/ PyInt(SubSeq(text, IndexOf(text, "/") + 1, Len(text))).exc # "none"
       \/ PyInt(SubSeq(text, 1, IndexOf(text, "/") - 1)).val \notin 1900..2100
       \/ PyInt(SubSeq(text, IndexOf(text, "/") + 1, Len(text))).val \notin 1..12

\* C2: a malformed or out-of-range year/month input fails the run with the
\* validation error, and no request is ever issued in that run.
C2_InvalidYearMonthFailsBeforeAnyRequest ==
    (pc \notin {"prompt_login", "prompt_ym"} /\ InvalidYearMonthText(ym_text))
        => /\ pc = "failed"
           /\ error.kind = "CBScrapingException"
           /\ requests = <<>>

C2_Witness ==
    /\ pc = "failed"
    /\ ym_text = <<"2", "0", "2", "4", "/", "1", "3">>
    /\ requests = <<>>

\* C3 (as claimed): whenever the transport reports anything but a 2xx
\* response for a request, the call fails with CBScrapingException naming
\* the method and the full URI.
C3_EveryTransportFailureIsWrapped ==
    (last_status \notin {"none", "2xx"})
        => /\ pc = "failed"
           /\ error.kind = "CBScrapingException"
           /\ error.msg = <<BACKQUOTE>> \o requests[Len(requests)].uri
                          \o <<BACKQUOTE, E_NO,
                               Upper(requests[Len(requests)].method),
                               REQUEST_FAILED>>

\* C4 (as claimed): an event entry without a title attribute, whether it
\* has no a.event anchor or an anchor without title, raises no error and
\* the other entries of the page are extracted.
C4_TitlelessEntriesAreDropped ==
    (PageFetched /\ AllLabelled(page))
        => /\ pc \in {"write", "done"}
           /\ DayAndTitle(schedules) = ExpectedRecords(page, ym.month)

\* C5: the list retrieve_monthly_schedules returns holds, in page order,
\* the titled entries of exactly the cells labelled with the wanted month,
\* each with the day of its own cell's label.
C5_RecordsOfTheMonthInPageOrder ==
    (pc \in {"write", "done"})
        => DayAndTitle(schedules) = ExpectedRecords(page, ym.month)

\* Two different entries are extracted from two cells of the month whose
\* days are not in ascending order on the page
C5_Witness ==
    /\ pc = "done"
    /\ Len(schedules) = 2
    /\ schedules[1].day > schedules[2].day
    /\ schedules[1].title # schedules[2].title

\* C8: requests go out in the order organization page GET, login page GET,
\* login POST, calendar GET, each once, each only after the one before was
\* answered without an exception; the POST carries the user id found in the
\* login page, and a login page without the user ends the run with the
\* not-found error and no POST.
ExpectedMethods == <<"get", "get", "post", "get">>

C8_RequestsInOrderOnceEach ==
    /\ [](/\ Len(requests) <= 4
          /\ \A i \in 1..Len(requests) : requests[i].method = ExpectedMethods[i]
          /\ Len(requests) >= 1 => requests[1].uri = <<CB_ROOT_URI, "page=LoginGroup">>
          /\ Len(requests) >= 2 => requests[2].uri = <<CB_ROOT_URI>> \o LoginUriPart
          /\ Len(requests) >= 3 => /\ requests[3].uri = requests[2].uri
                                   /\ user_id # <<>>
                                   /\ requests[3].data._ID = user_id
          /\ Len(requests) >= 4 => requests[4].uri = <<CB_ROOT_URI>> \o CalendarUriPart
          /\ (Len(requests) = 2 /\ last_status \in OkStatuses /\ user_id = <<>>)
                => (pc = "failed" /\ error.kind = "CBScrapingException"))
    /\ [][requests' # requests =>
            /\ Len(requests') = Len(requests) + 1
            /\ SubSeq(requests', 1, Len(requests)) = requests
            /\ error.kind = "none"
            /\ requests # <<>> => last_status \in OkStatuses]_vars

C8_Witness ==
    /\ pc = "failed"
    /\ Len(requests) = 2
    /\ last_status = "2xx"
    /\ user_id = <<>>
    /\ error.kind = "CBScrapingException"

\* C10 (as claimed): a cell without span.date fails the extraction with an
\* error of the program's own kind.
C10_MissingLabelIsScrapingException ==
    (PageFetched /\ ~AllLabelled(page))
        => (pc = "failed" /\ error.kind = "CBScrapingException")

\* C10 (amended): a cell without span.date fails the extraction with an
\* AttributeError, which is not of the program's own kind, and no list is
\* returned; a page whose cells all have a label and no entries gives the
\* empty list and no error.
C10_MissingLabelIsAttributeError ==
    /\ (PageFetched /\ ~AllLabelled(page))
          => /\ pc = "failed"
             /\ error.kind = "AttributeError"
             /\ schedules = <<>>
             /\ stdout = <<>>
    /\ (/\ PageFetched
        /\ AllLabelled(page)
        /\ \A i \in 1..Len(page) : page[i].events = <<>>)
          => (pc \in {"write", "done"} /\ schedules = <<>>)

C10_Witness ==
    /\ PageFetched
    /\ Len(page) = 2
    /\ page[1].label.present
    /\ page[1].events # <<>>
    /\ ~page[2].label.present
    /\ error.kind = "AttributeError"

\* ------------------------------------------------- lookup (SpecLookup)

\* s has no whitespace at either end
Trimmed(s) == s = <<>> \/ (~IsSpace(s[1]) /\ ~IsSpace(s[Len(s)]))

\* text is name with nothing but whitespace before and after it
PaddingOf(text, name) ==
    \E i \in 1..(Len(text) + 1), j \in 0..Len(text) :
        /\ SubSeq(text, i, j) = name
        /\ \A k \in 1..(i - 1) : IsSpace(text[k])
        /\ \A k \in (j + 1)..Len(text) : IsSpace(text[k])

\* The first option whose text, whitespace aside, is the name: its place
FirstPadded(options, name) ==
    CHOOSE i \in 1..Len(options) :
        /\ PaddingOf(options[i].text, name)
        /\ \A k \in 1..(i - 1) : ~PaddingOf(options[k].text, name)

TwoDigits(n) == <<Digits[(n \div 10) + 1], Digits[(n % 10) + 1]>>

\* C7 (as claimed): a record without begin prints as "<day>nichi <title>",
\* whatever its end.
C7_NoBeginPrintsNoEnd ==
    (ret.stage = "printed" /\ ret.records[1].begin = None)
        => ret.line = IntToStr(ret.records[1].day) \o <<NICHI, " ">>
                      \o ret.records[1].title

\* C7 (amended): a record with neither begin nor end prints as
\* "<day>nichi <title>"; a record without begin but with an end prints as
\* "<day>nichi -HH:MM <title>", the dash and the end time shown.
C7_NoBeginStillPrintsEnd ==
    (ret.stage = "printed" /\ ret.records[1].begin = None)
        => ret.line =
             IF ret.records[1].end = None
             THEN IntToStr(ret.records[1].day) \o <<NICHI, " ">>
                  \o ret.records[1].title
             ELSE IntToStr(ret.records[1].day) \o <<NICHI, " ", "-">>
                  \o TwoDigits(ret.records[1].end.hour) \o <<":">>
                  \o TwoDigits(ret.records[1].end.minute)
                  \o <<" ">> \o ret.records[1].title

\* A record extracted from a label such as "-10:30" and printed
C7_Witness ==
    /\ ret.stage = "printed"
    /\ arg.kind = "event"
    /\ arg.ev.time.text = <<"-", "1", "0", ":", "3", "0">>
    /\ ret.records[1].begin = None
    /\ ret.records[1].end = [hour |-> 10, minute |-> 30]

\* C9 (as claimed): no time-range label makes the extraction of its entry
\* fail; a part that is no H:MM time is absent.
C9_TimeRangeParsingNeverFails ==
    (arg.kind = "event" /\ ret.stage # "none") => ret.exc = "none"

====
